---- MODULE Spec2Model ----
(***************************************************************************)
(* Model of glQiwiApi/core/session/holder.py: AbstractSessionHolder and    *)
(* its aiohttp backend AiohttpSessionHolder.  A holder owns one lazily     *)
(* allocated aiohttp.ClientSession, reuses it while it is open and         *)
(* allocates a new one once it reports closed.                             *)
(***************************************************************************)
EXTENDS Integers, Sequences, FiniteSets, TLC

\* Bound on the number of ClientSession objects one behaviour allocates.
MaxSessions == 3

\* Bound on the number of ClientSession objects allocated when the calls
\* run in steps (several tasks, or cancellation).
MaxSharedSessions == 2

\* Bound on the number of calls that are cancelled in one behaviour.
MaxCancels == 2

\* Tasks that may call into the holder.
Tasks == {"t1", "t2"}

\* The single owning task of the sequential specification.
Owner == "t1"

\* Keyword names and values used for the session kwargs.
Keys == {"timeout", "proxy"}
Values == {1, 2}

\* A kwargs dict: a mapping from some of the keys to values.
Config == UNION {[D -> Values] : D \in SUBSET Keys}

\* The dict of a holder constructed without keyword arguments.
EmptyCfg == [k \in {} |-> 1]

\* Initial keyword arguments the constructor is called with.
InitConfigs == {EmptyCfg, [k \in {"timeout"} |-> 1]}

\* Overrides passed to update_session_kwargs.
Overrides == {EmptyCfg, [k \in {"timeout"} |-> 2], [k \in {"proxy"} |-> 1]}

\* Python's None for the _session attribute; session objects are 1, 2, ...
None == 0

NoError == "none"
AllocationError == "AllocationError"
BodyError == "BodyError"
AttributeError == "AttributeError"
CancelledError == "CancelledError"

\* Header mappings of the raw responses.
NoHeaders == [h \in {} |-> "1"]
TestHeaders == [h \in {"X-Test"} |-> "1"]

\* Raw aiohttp.ClientResponse objects handed to parse_response: the status,
\* the payload bytes on the wire, the size of the chunks the payload arrives
\* in, the headers and the content type.
RawResponses ==
    {[status |-> 200, payload |-> <<111, 107>>, chunk |-> 1,
      headers |-> TestHeaders, content_type |-> "text/plain"],
     [status |-> 404, payload |-> << >>, chunk |-> 2,
      headers |-> NoHeaders, content_type |-> "application/json"],
     [status |-> 200, payload |-> <<1, 2, 3>>, chunk |-> 2,
      headers |-> TestHeaders, content_type |-> "application/json"]}

VARIABLES
    _session,         \* self._session: None or the identity of a session object
    _session_kwargs,  \* self._session_kwargs
    objs,             \* the ClientSession objects allocated so far, by identity
    pc,               \* per task: "out" of any scope or in the "body" of one
    yielded,          \* per task: the session the last entered scope yielded
    prevYielded,      \* per task: the session the scope before that yielded
    last,             \* the last operation: task, name, result, error, closes
    reuse,            \* session returned by get_session since the last close
    init_kwargs,      \* the kwargs the holder was constructed with
    parsed,           \* what the last operation, if parse_response, read and built
    frame,            \* per task: the call suspended at an await, if any
    cancelled,        \* how many calls were cancelled, and the last one's name
    written           \* per key: the value last passed for it, if any

vars == <<_session, _session_kwargs, objs, pc, yielded, prevYielded, last,
          reuse, init_kwargs, parsed, frame, cancelled, written>>

\* aiohttp.ClientSession(**kwargs): a new open session built from a copy of
\* the keyword arguments.
ClientSession(kwargs) ==
    [closed |-> FALSE, kwargs |-> kwargs, closeCalls |-> 0]

\* ClientSession.close(): the session reports closed afterwards.
ClientSessionClose(o) ==
    [o EXCEPT !.closed = TRUE, !.closeCalls = @ + 1]

\* dict.update(d, kw)
\* Faulty variant of dict.update: a key that is already present keeps its
\* value.
dict_setdefault(d, kw) ==
    [k \in DOMAIN d \cup DOMAIN kw |-> IF k \in DOMAIN d THEN d[k] ELSE kw[k]]

DictUpdate(d, kw) ==
    [k \in (DOMAIN d) \cup (DOMAIN kw) |-> IF k \in DOMAIN kw THEN kw[k] ELSE d[k]]

\* The dataclass Response.
Response(status_code, body, headers, content_type) ==
    [status_code |-> status_code, body |-> body, headers |-> headers,
     content_type |-> content_type]

\* The first n elements of a sequence and what follows them.
Take(q, n) ==
    SubSeq(q, 1, IF n < Len(q) THEN n ELSE Len(q))

Drop(q, n) ==
    SubSeq(q, (IF n < Len(q) THEN n ELSE Len(q)) + 1, Len(q))

\* ClientResponse.read(): the payload is read chunk by chunk to its end and
\* the chunks are joined.
RECURSIVE ResponseRead(_, _)
ResponseRead(payload, chunk) ==
    IF payload = << >> THEN << >>
    ELSE Take(payload, chunk) \o ResponseRead(Drop(payload, chunk), chunk)

\* The record of an operation: who ran it, its name, what it returned, the
\* error that left it, how many times it invoked close(), how many sessions
\* it constructed, how many native ClientSession.close() calls it made and
\* the exception the scope's body raised (for __aexit__).
Op(t, name, ret, err, closes, alloc, native, raised) ==
    [task |-> t, op |-> name, ret |-> ret, err |-> err, closes |-> closes,
     alloc |-> alloc, native |-> native, raised |-> raised]

\* The frame of a task that is not inside a call of the holder.  A suspended
\* call records its name, the await it is at ("alloc": line 82, "closing":
\* line 69), the _session it read at its working-order check and, for
\* __aexit__, the exception of the body.
IdleFrame ==
    [op |-> "none", at |-> "idle", seen |-> None, exc |-> NoError]

Init ==
    /\ _session = None
    /\ _session_kwargs \in InitConfigs
    /\ init_kwargs = _session_kwargs
    /\ objs = << >>
    /\ pc = [t \in Tasks |-> "out"]
    /\ yielded = [t \in Tasks |-> None]
    /\ prevYielded = [t \in Tasks |-> None]
    /\ last = Op("none", "init", None, NoError, 0, 0, 0, NoError)
    /\ reuse = None
    /\ parsed = << >>
    /\ frame = [t \in Tasks |-> IdleFrame]
    /\ cancelled = [n |-> 0, op |-> "none"]
    /\ written = [k \in Keys |-> IF k \in DOMAIN init_kwargs
                                 THEN {init_kwargs[k]} ELSE {}]

\* Unallocated, Active or Closed: _session is None, or else what the closed
\* flag of the stored session says.
HolderState ==
    IF _session = None THEN "Unallocated"
    ELSE IF objs[_session].closed THEN "Closed" ELSE "Active"

\* Faulty variant of _session_in_working_order: the closed flag is not read.
working_order_ignores_closed ==
    _session # None

\* Faulty variant of _session_in_working_order: "or" in place of "and".
working_order_or ==
    _session = None \/ objs[_session].closed = FALSE

\* Faulty variant of _session_in_working_order: "closed is True".
working_order_inverted ==
    _session # None /\ objs[_session].closed = TRUE

_session_in_working_order ==
    _session # None /\ objs[_session].closed = FALSE

\* Faulty variant of _instantiate_new_session: a stored session is opened
\* again in place of constructing a new one.
instantiate_reopens(fail) ==
    IF fail
    THEN [session |-> _session, objs |-> objs, ret |-> None,
          err |-> AllocationError]
    ELSE IF _session # None
    THEN [session |-> _session,
          objs |-> [objs EXCEPT ![_session].closed = FALSE],
          ret |-> _session, err |-> NoError]
    ELSE [session |-> Len(objs) + 1,
          objs |-> Append(objs, ClientSession(_session_kwargs)),
          ret |-> Len(objs) + 1, err |-> NoError]

\* The outcome of _instantiate_new_session; fail: the constructor raises,
\* so the assignment to self._session does not happen.
_instantiate_new_session(fail) ==
    IF fail
    THEN [session |-> _session, objs |-> objs, ret |-> None,
          err |-> AllocationError]
    ELSE [session |-> Len(objs) + 1,
          objs |-> Append(objs, ClientSession(_session_kwargs)),
          ret |-> Len(objs) + 1, err |-> NoError]

\* Faulty variant of get_session: no reuse, every call allocates.
get_session_always_new(fail) ==
    _instantiate_new_session(fail)

\* The outcome of a call of get_session.
get_session_call(fail) ==
    IF _session_in_working_order
    THEN [session |-> _session, objs |-> objs, ret |-> _session,
          err |-> NoError]
    ELSE _instantiate_new_session(fail)

\* Faulty variant of close: the closed flag is not checked before closing.
close_no_liveness ==
    IF _session # None
    THEN [session |-> _session,
          objs |-> [objs EXCEPT ![_session] = ClientSessionClose(@)],
          native |-> 1, err |-> NoError]
    ELSE [session |-> _session, objs |-> objs, native |-> 0, err |-> NoError]

\* Faulty variant of close: the reference is dropped after closing.
close_drops_reference ==
    IF _session_in_working_order
    THEN [session |-> None,
          objs |-> [objs EXCEPT ![_session] = ClientSessionClose(@)],
          native |-> 1, err |-> NoError]
    ELSE [session |-> None, objs |-> objs, native |-> 0, err |-> NoError]

\* The outcome of a call of close; self._session.close() on None raises.
close_call ==
    IF _session_in_working_order
    THEN IF _session = None
         THEN [session |-> _session, objs |-> objs, native |-> 0,
               err |-> AttributeError]
         ELSE [session |-> _session,
               objs |-> [objs EXCEPT ![_session] = ClientSessionClose(@)],
               native |-> 1, err |-> NoError]
    ELSE [session |-> _session, objs |-> objs, native |-> 0, err |-> NoError]

\* Faulty variant of update_session_kwargs: the live session shares the
\* holder's dict, so it sees the update.
update_aliases_session(kw) ==
    [kwargs |-> DictUpdate(_session_kwargs, kw),
     objs |-> IF _session # None
              THEN [objs EXCEPT ![_session].kwargs = DictUpdate(@, kw)]
              ELSE objs]

\* The outcome of update_session_kwargs(**kw).
update_call(kw) ==
    [kwargs |-> DictUpdate(_session_kwargs, kw), objs |-> objs]

\* Faulty variant of __aenter__: a failed acquisition clears the reference.
aenter_clears_on_error(fail) ==
    LET r == get_session_call(fail) IN
    IF r.err # NoError
    THEN [session |-> None, objs |-> r.objs, ret |-> None,
          err |-> r.err, entered |-> FALSE]
    ELSE [session |-> r.ret, objs |-> r.objs, ret |-> r.ret,
          err |-> NoError, entered |-> TRUE]

\* The outcome of __aenter__: the session is stored and yielded, unless
\* get_session raised, which ends __aenter__ before its assignment.
aenter_call(fail) ==
    LET r == get_session_call(fail) IN
    IF r.err # NoError
    THEN [session |-> r.session, objs |-> r.objs, ret |-> None,
          err |-> r.err, entered |-> FALSE]
    ELSE [session |-> r.ret, objs |-> r.objs, ret |-> r.ret,
          err |-> NoError, entered |-> TRUE]

\* Faulty variant of __aexit__: close is skipped when the body raised.
aexit_skips_on_error(exc) ==
    LET c == close_call IN
    IF exc = NoError
    THEN [session |-> c.session, objs |-> c.objs, closes |-> 1,
          native |-> c.native, err |-> c.err, suppress |-> FALSE]
    ELSE [session |-> _session, objs |-> objs, closes |-> 0,
          native |-> 0, err |-> NoError, suppress |-> FALSE]

\* Faulty variant of __aexit__: nothing is closed.
aexit_noop(exc) ==
    [session |-> _session, objs |-> objs, closes |-> 0, native |-> 0,
     err |-> NoError, suppress |-> FALSE]

\* The outcome of __aexit__(exc_type, ...): close is awaited and None is
\* returned, so an exception of the body is not suppressed.
aexit_call(exc) ==
    LET c == close_call IN
    [session |-> c.session, objs |-> c.objs, closes |-> 1,
     native |-> c.native, err |-> c.err, suppress |-> FALSE]

\* Faulty variant of parse_response: one chunk of the body is read.
parse_reads_one_chunk(response) ==
    [response |-> Response(response.status,
                           Take(response.payload, response.chunk),
                           response.headers, response.content_type),
     reads |-> 1, session |-> _session, objs |-> objs,
     kwargs |-> _session_kwargs]

\* Faulty variant of parse_response: a session is acquired for the parsing.
parse_acquires_session(response) ==
    LET g == get_session_call(FALSE) IN
    [response |-> Response(response.status,
                           ResponseRead(response.payload, response.chunk),
                           response.headers, response.content_type),
     reads |-> 1, session |-> g.session, objs |-> g.objs,
     kwargs |-> _session_kwargs]

\* The outcome of parse_response(response): the Response built, the number
\* of times the body was read, and the holder, which is not touched.
parse_call(response) ==
    [response |-> Response(response.status,
                           ResponseRead(response.payload, response.chunk),
                           response.headers, response.content_type),
     reads |-> 1, session |-> _session, objs |-> objs,
     kwargs |-> _session_kwargs]

get_session(t) ==
    \E fail \in BOOLEAN :
        LET r == get_session_call(fail) IN
        /\ Len(r.objs) <= MaxSessions
        /\ _session' = r.session
        /\ objs' = r.objs
        /\ last' = Op(t, "get_session", r.ret, r.err, 0,
                      Len(r.objs) - Len(objs), 0, NoError)
        /\ reuse' = IF r.err = NoError THEN r.ret ELSE reuse
        /\ UNCHANGED written
        /\ UNCHANGED <<frame, cancelled>>
        /\ parsed' = << >>
        /\ UNCHANGED <<_session_kwargs, pc, yielded, prevYielded, init_kwargs>>

close(t) ==
    LET r == close_call IN
    /\ _session' = r.session
    /\ objs' = r.objs
    /\ last' = Op(t, "close", None, r.err, 1, 0, r.native, NoError)
    /\ reuse' = None
    /\ UNCHANGED written
    /\ UNCHANGED <<frame, cancelled>>
    /\ parsed' = << >>
    /\ UNCHANGED <<_session_kwargs, pc, yielded, prevYielded, init_kwargs>>

update_session_kwargs(t) ==
    \E kw \in Overrides :
        LET r == update_call(kw) IN
        /\ _session_kwargs' = r.kwargs
        /\ objs' = r.objs
        /\ last' = Op(t, "update_session_kwargs", None, NoError, 0, 0, 0,
                      NoError)
        /\ written' = [k \in Keys |-> IF k \in DOMAIN kw THEN {kw[k]}
                                     ELSE written[k]]
        /\ UNCHANGED <<frame, cancelled>>
        /\ parsed' = << >>
        /\ UNCHANGED <<_session, pc, yielded, prevYielded, reuse, init_kwargs>>

\* async with holder as s: the scope is entered when __aenter__ returns.
__aenter__(t) ==
    /\ pc[t] = "out"
    /\ \E fail \in BOOLEAN :
        LET r == aenter_call(fail) IN
        /\ Len(r.objs) <= MaxSessions
        /\ _session' = r.session
        /\ objs' = r.objs
        /\ pc' = IF r.entered THEN [pc EXCEPT ![t] = "body"] ELSE pc
        /\ yielded' = IF r.entered THEN [yielded EXCEPT ![t] = r.ret]
                      ELSE yielded
        /\ prevYielded' = IF r.entered
                          THEN [prevYielded EXCEPT ![t] = yielded[t]]
                          ELSE prevYielded
        /\ last' = Op(t, "__aenter__", r.ret, r.err, 0,
                      Len(r.objs) - Len(objs), 0, NoError)
        /\ reuse' = IF r.err = NoError THEN r.ret ELSE reuse
        /\ UNCHANGED written
        /\ UNCHANGED <<frame, cancelled>>
        /\ parsed' = << >>
        /\ UNCHANGED <<_session_kwargs, init_kwargs>>

\* The scope's body ends, normally (exc = NoError) or by raising; __aexit__
\* runs and the exception, unless suppressed, reaches the scope's caller.
\* An error of close itself leaves __aexit__ in its place.
__aexit__(t) ==
    /\ pc[t] = "body"
    /\ \E exc \in {NoError, BodyError} :
        LET r == aexit_call(exc) IN
        /\ _session' = r.session
        /\ objs' = r.objs
        /\ pc' = [pc EXCEPT ![t] = "out"]
        /\ last' = Op(t, "__aexit__", None,
                      IF r.err # NoError THEN r.err
                      ELSE IF r.suppress THEN NoError ELSE exc,
                      r.closes, 0, r.native, exc)
        /\ reuse' = None
        /\ UNCHANGED written
        /\ UNCHANGED <<frame, cancelled>>
        /\ parsed' = << >>
        /\ UNCHANGED <<_session_kwargs, yielded, prevYielded, init_kwargs>>

parse_response(t) ==
    \E response \in RawResponses :
        LET r == parse_call(response) IN
        /\ Len(r.objs) <= MaxSessions
        /\ _session' = r.session
        /\ objs' = r.objs
        /\ _session_kwargs' = r.kwargs
        /\ UNCHANGED written
        /\ UNCHANGED <<frame, cancelled>>
        /\ parsed' = <<[raw |-> response, response |-> r.response,
                        reads |-> r.reads]>>
        /\ last' = Op(t, "parse_response", None, NoError, 0,
                      Len(r.objs) - Len(objs), 0, NoError)
        /\ UNCHANGED <<pc, yielded, prevYielded, reuse, init_kwargs>>

\* An actor other than the holder closes an open session it borrowed.
ExternalClose ==
    \E i \in DOMAIN objs :
        /\ objs[i].closed = FALSE
        /\ objs' = [objs EXCEPT ![i].closed = TRUE]
        /\ last' = Op("external", "external_close", None, NoError, 0, 0, 0,
                      NoError)
        /\ reuse' = None
        /\ UNCHANGED written
        /\ UNCHANGED <<frame, cancelled>>
        /\ parsed' = << >>
        /\ UNCHANGED <<_session, _session_kwargs, pc, yielded, prevYielded,
                       init_kwargs>>

(***************************************************************************)
(* The same calls in steps: a call runs to its await and is resumed later, *)
(* so that calls of several tasks interleave and a suspended call can be   *)
(* cancelled.  get_session awaits _instantiate_new_session (line 82) after *)
(* its working-order check; close awaits the native close (line 69).       *)
(***************************************************************************)

\* What a suspended get_session or __aenter__ resumes with: the allocation
\* and, for __aenter__, the assignment of line 51.
resume_alloc(name, fail) ==
    LET r == _instantiate_new_session(fail) IN
    [session |-> r.session, objs |-> r.objs, ret |-> r.ret, err |-> r.err,
     entered |-> (name = "__aenter__" /\ r.err = NoError)]

\* ClientSession.close() on session s up to its suspension: the call is
\* counted; early: the session reports closed from here on.
close_started(s, early) ==
    [objs EXCEPT ![s].closeCalls = @ + 1, ![s].closed = (@ \/ early)]

\* Faulty variant of the awaited native close: the coroutine is not awaited.
close_not_awaited(s) ==
    objs

\* ClientSession.close() on session s from its suspension to its end.
close_awaited(s) ==
    [objs EXCEPT ![s].closed = TRUE]

\* get_session up to its await: an open stored session is returned at
\* once, otherwise the call is suspended before the allocation.
get_session_begin(t) ==
    /\ frame[t].at = "idle"
    /\ IF _session_in_working_order
       THEN get_session(t)
       ELSE /\ frame' = [frame EXCEPT ![t] =
                           [op |-> "get_session", at |-> "alloc",
                            seen |-> _session, exc |-> NoError]]
            /\ UNCHANGED <<_session, _session_kwargs, objs, pc, yielded,
                           prevYielded, last, reuse, init_kwargs, parsed,
                           cancelled, written>>

\* __aenter__ up to the await inside its get_session call.
aenter_begin(t) ==
    /\ frame[t].at = "idle"
    /\ pc[t] = "out"
    /\ IF _session_in_working_order
       THEN __aenter__(t)
       ELSE /\ frame' = [frame EXCEPT ![t] =
                           [op |-> "__aenter__", at |-> "alloc",
                            seen |-> _session, exc |-> NoError]]
            /\ UNCHANGED <<_session, _session_kwargs, objs, pc, yielded,
                           prevYielded, last, reuse, init_kwargs, parsed,
                           cancelled, written>>

\* The suspended get_session or __aenter__ allocates, stores and returns.
get_session_resume(t) ==
    /\ frame[t].at = "alloc"
    /\ \E fail \in BOOLEAN :
        LET r == resume_alloc(frame[t].op, fail) IN
        /\ Len(r.objs) <= MaxSharedSessions
        /\ _session' = r.session
        /\ objs' = r.objs
        /\ pc' = IF r.entered THEN [pc EXCEPT ![t] = "body"] ELSE pc
        /\ yielded' = IF r.entered THEN [yielded EXCEPT ![t] = r.ret]
                      ELSE yielded
        /\ prevYielded' = IF r.entered
                          THEN [prevYielded EXCEPT ![t] = yielded[t]]
                          ELSE prevYielded
        /\ last' = Op(t, frame[t].op, r.ret, r.err, 0,
                      Len(r.objs) - Len(objs), 0, NoError)
        /\ reuse' = IF r.err = NoError THEN r.ret ELSE reuse
        /\ parsed' = << >>
        /\ frame' = [frame EXCEPT ![t] = IdleFrame]
        /\ UNCHANGED <<_session_kwargs, init_kwargs, cancelled, written>>

\* close up to its await: nothing to do without a session in working order,
\* otherwise the native close of the stored session is started.
close_begin(t) ==
    /\ frame[t].at = "idle"
    /\ IF _session_in_working_order
       THEN \E early \in BOOLEAN :
            /\ objs' = close_started(_session, early)
            /\ frame' = [frame EXCEPT ![t] =
                           [op |-> "close", at |-> "closing",
                            seen |-> _session, exc |-> NoError]]
            /\ UNCHANGED <<_session, _session_kwargs, pc, yielded,
                           prevYielded, last, reuse, init_kwargs, parsed,
                           cancelled, written>>
       ELSE close(t)

\* The scope's body ends and __aexit__ runs up to the await of its close.
aexit_begin(t) ==
    /\ frame[t].at = "idle"
    /\ pc[t] = "body"
    /\ IF _session_in_working_order
       THEN \E early \in BOOLEAN, exc \in {NoError, BodyError} :
            /\ objs' = close_started(_session, early)
            /\ frame' = [frame EXCEPT ![t] =
                           [op |-> "__aexit__", at |-> "closing",
                            seen |-> _session, exc |-> exc]]
            /\ UNCHANGED <<_session, _session_kwargs, pc, yielded,
                           prevYielded, last, reuse, init_kwargs, parsed,
                           cancelled, written>>
       ELSE __aexit__(t)

\* The suspended close or __aexit__ is resumed: the native close ends and
\* the call returns; __aexit__ lets the exception of the body through.
close_resume(t) ==
    /\ frame[t].at = "closing"
    /\ objs' = close_awaited(frame[t].seen)
    /\ pc' = IF frame[t].op = "__aexit__" THEN [pc EXCEPT ![t] = "out"]
             ELSE pc
    /\ last' = Op(t, frame[t].op, None,
                  IF aexit_call(frame[t].exc).suppress THEN NoError
                  ELSE frame[t].exc,
                  1, 0, 1, frame[t].exc)
    /\ reuse' = None
    /\ parsed' = << >>
    /\ frame' = [frame EXCEPT ![t] = IdleFrame]
    /\ UNCHANGED <<_session, _session_kwargs, yielded, prevYielded,
                   init_kwargs, cancelled, written>>

\* The suspended call of task t is cancelled: CancelledError is raised at
\* its await and leaves the call; nothing after the await runs.
cancel(t) ==
    /\ frame[t].at # "idle"
    /\ cancelled.n < MaxCancels
    /\ cancelled' = [n |-> cancelled.n + 1, op |-> frame[t].op]
    /\ pc' = IF frame[t].op = "__aexit__" THEN [pc EXCEPT ![t] = "out"]
             ELSE pc
    /\ last' = Op(t, frame[t].op, None, CancelledError,
                  IF frame[t].at = "closing" THEN 1 ELSE 0, 0,
                  IF frame[t].at = "closing" THEN 1 ELSE 0, frame[t].exc)
    /\ reuse' = IF frame[t].at = "closing" THEN None ELSE reuse
    /\ parsed' = << >>
    /\ frame' = [frame EXCEPT ![t] = IdleFrame]
    /\ UNCHANGED <<_session, _session_kwargs, objs, yielded, prevYielded,
                   init_kwargs, written>>

\* One step of a call of task t.
TaskStep(t) ==
    \/ get_session_begin(t)
    \/ aenter_begin(t)
    \/ get_session_resume(t)
    \/ close_begin(t)
    \/ aexit_begin(t)
    \/ close_resume(t)

Next ==
    \/ get_session(Owner)
    \/ close(Owner)
    \/ update_session_kwargs(Owner)
    \/ __aenter__(Owner)
    \/ __aexit__(Owner)
    \/ parse_response(Owner)
    \/ ExternalClose

Spec == Init /\ [][Next]_vars

\* Several tasks share a holder constructed without kwargs, and nothing
\* serializes their calls.
ConcInit ==
    Init /\ _session_kwargs = EmptyCfg

ConcNext ==
    \/ \E t \in Tasks : TaskStep(t)
    \/ ExternalClose

SpecConc == ConcInit /\ [][ConcNext]_vars

\* One task, whose suspended calls may be cancelled.
CancelNext ==
    \/ TaskStep(Owner)
    \/ cancel(Owner)
    \/ ExternalClose

SpecCancel == Init /\ [][CancelNext]_vars

(***************************************************************************)
(* Properties.  Every action writes its own record to last, so a step with *)
(* last'.op = "close" is a close step, and so on.                          *)
(***************************************************************************)

\* l records a get_session call, or a scope entry (which performs
\* get_session), that returned a session.
Acquired(l) ==
    l.op \in {"get_session", "__aenter__"} /\ l.err = NoError

\* C1: idempotent reuse.  While no close and no external closure has
\* happened since a get_session call returned a session, every further
\* get_session call returns that same instance, leaves it stored and
\* allocates nothing.
C1_IdempotentReuse ==
    [][(reuse # None /\ Acquired(last'))
        => /\ last'.ret = reuse
           /\ _session' = reuse
           /\ objs' = objs
           /\ last'.alloc = 0]_vars

\* A get_session call that reused the session an earlier call returned.
C1_Witness ==
    /\ last.op = "get_session"
    /\ last.err = NoError
    /\ last.alloc = 0
    /\ last.ret = _session
    /\ reuse = last.ret

\* C2: get_session postcondition.  From every holder state a get_session
\* call that returns yields an open session which is the stored one; when
\* the holder was Unallocated or its stored session was closed (by close or
\* by an external actor), the session is a new object built from the
\* current kwargs.
C2_GetSessionPostcondition ==
    [][Acquired(last')
        => /\ last'.ret \in DOMAIN objs'
           /\ objs'[last'.ret].closed = FALSE
           /\ _session' = last'.ret
           /\ (HolderState # "Active"
                 => /\ last'.ret \notin DOMAIN objs
                    /\ objs'[last'.ret] = ClientSession(_session_kwargs))]_vars

\* get_session reallocated after an external actor closed the stored session
\* (the holder never called close on it).
C2_Witness ==
    /\ last.op = "get_session"
    /\ last.err = NoError
    /\ last.alloc = 1
    /\ last.ret > 1
    /\ objs[last.ret - 1].closed
    /\ objs[last.ret - 1].closeCalls = 0
    /\ objs[last.ret].closed = FALSE
    /\ _session = last.ret

\* C3: reallocation after close.  A session the holder's close has closed
\* is never returned by a later get_session: the call returns a distinct
\* instance.
C3_ReallocationAfterClose ==
    [][Acquired(last')
        => \A i \in DOMAIN objs :
              objs[i].closeCalls > 0 => last'.ret # i]_vars

\* get_session after a close of the Active holder returned a new instance.
C3_Witness ==
    /\ last.op = "get_session"
    /\ last.err = NoError
    /\ last.ret > 1
    /\ objs[last.ret - 1].closeCalls = 1
    /\ objs[last.ret - 1].closed
    /\ _session = last.ret

\* C4: idempotent close.  A close call never errors and leaves the holder
\* Closed (Unallocated when no session was ever allocated); on a holder that
\* is Unallocated or Closed it changes nothing.
C4_IdempotentClose ==
    [][last'.op = "close"
        => /\ last'.err = NoError
           /\ HolderState' = (IF Len(objs) = 0 THEN "Unallocated" ELSE "Closed")
           /\ (HolderState # "Active"
                 => UNCHANGED <<_session, _session_kwargs, objs>>)]_vars

\* A redundant close: close on a holder that was already Closed.
C4_Witness ==
    /\ last.op = "close"
    /\ last.err = NoError
    /\ last.native = 0
    /\ HolderState = "Closed"

\* C5: scope guarantee.  Whenever a scope has exited, on the normal and on
\* the error path, __aexit__ has invoked close exactly once, the session the
\* scope yielded is closed, and the error the body raised is the error that
\* reaches the scope's caller.
C5_ScopeGuarantee ==
    last.op = "__aexit__"
        => /\ last.closes = 1
           /\ objs[yielded[last.task]].closed
           /\ last.err = last.raised

\* The body raised, the exit closed the yielded session, the error came out.
C5_Witness ==
    /\ last.op = "__aexit__"
    /\ last.raised = BodyError
    /\ last.err = BodyError
    /\ last.closes = 1
    /\ last.native = 1
    /\ objs[yielded[Owner]].closed

\* C6: config isolation.  update_session_kwargs neither replaces nor closes
\* nor reconfigures the stored session; no step changes the kwargs a session
\* was built from; and every session allocated is built from the holder's
\* kwargs as they stand at that allocation.
C6_ConfigIsolation ==
    [][/\ \A i \in DOMAIN objs :
            i \in DOMAIN objs' /\ objs'[i].kwargs = objs[i].kwargs
       /\ (last'.op = "update_session_kwargs"
             => _session' = _session /\ objs' = objs)
       /\ \A i \in (DOMAIN objs') \ (DOMAIN objs) :
            objs'[i].kwargs = _session_kwargs]_vars

\* The kwargs were updated while the session is Active, and the live session
\* still has the kwargs it was built from.
C6_Witness ==
    /\ HolderState = "Active"
    /\ last.op = "update_session_kwargs"
    /\ objs[_session].kwargs # _session_kwargs

\* C7: close once per allocation.  The native close of a session is invoked
\* by the holder only while the session reports open and has not been closed
\* by the holder before, so at most once per session.
C7_CloseOncePerAllocation ==
    [][\A i \in DOMAIN objs :
          objs'[i].closeCalls # objs[i].closeCalls
            => /\ objs[i].closed = FALSE
               /\ objs[i].closeCalls = 0
               /\ objs'[i].closeCalls = 1]_vars

\* A scope exit found the yielded session already closed by a close call of
\* the body and did not close it again.
C7_Witness ==
    /\ last.op = "__aexit__"
    /\ last.native = 0
    /\ _session = yielded[Owner]
    /\ objs[_session].closeCalls = 1

\* C8: end-to-end scope cycle, for a holder constructed without kwargs.
\* get_session right after a scope entry returns the session the scope
\* yielded; once the scope has exited that session reports closed; the next
\* scope yields a different, open session.
C8_ScopeCycle ==
    [][init_kwargs = EmptyCfg
        => /\ (last.op = "__aenter__" /\ last.err = NoError
                 /\ last'.op = "get_session")
                => /\ last'.err = NoError
                   /\ last'.ret = yielded[last.task]
           /\ last'.op = "__aexit__"
                => objs'[yielded'[last'.task]].closed
           /\ (last'.op = "__aenter__" /\ last'.err = NoError
                 /\ prevYielded'[last'.task] # None)
                => /\ yielded'[last'.task] # prevYielded'[last'.task]
                   /\ objs'[prevYielded'[last'.task]].closed
                   /\ objs'[yielded'[last'.task]].closed = FALSE]_vars

\* Inside the second scope get_session returned session2, which is open and
\* differs from the closed session1 of the first scope.
C8_Witness ==
    /\ init_kwargs = EmptyCfg
    /\ _session_kwargs = EmptyCfg
    /\ pc[Owner] = "body"
    /\ last.op = "get_session"
    /\ prevYielded[Owner] # None
    /\ last.ret = yielded[Owner]
    /\ yielded[Owner] # prevYielded[Owner]
    /\ objs[prevYielded[Owner]].closed
    /\ objs[last.ret].closed = FALSE

\* The transitions of get_session.
GetTransition ==
    \/ HolderState = "Unallocated" /\ HolderState' = "Active"
    \/ HolderState = "Active" /\ HolderState' = "Active"
         /\ _session' = _session
    \/ HolderState = "Closed" /\ HolderState' = "Active"
         /\ _session' \notin DOMAIN objs

\* The transitions of close.
CloseTransition ==
    \/ HolderState = "Active" /\ HolderState' = "Closed"
         /\ _session' = _session
    \/ HolderState = "Closed" /\ HolderState' = "Closed"
         /\ _session' = _session
    \/ HolderState = "Unallocated" /\ HolderState' = "Unallocated"

\* Active can be entered by get_session, Closed by close.
CanActivate ==
    ENABLED (get_session(Owner) /\ HolderState' = "Active")

CanClose ==
    ENABLED (close(Owner) /\ HolderState' = "Closed")

C9_States ==
    /\ HolderState \in {"Unallocated", "Active", "Closed"}
    /\ (Len(objs) = 0 => HolderState = "Unallocated")
    /\ ((HolderState = "Active" \/ Len(objs) < MaxSessions) => CanActivate)
    /\ (HolderState # "Unallocated" => CanClose)

C9_Steps ==
    /\ Acquired(last') => GetTransition
    /\ last'.op \in {"close", "__aexit__"} => CloseTransition
    /\ last'.op = "external_close"
         => HolderState = "Active" /\ HolderState' = "Closed"
    /\ (last'.op = "update_session_kwargs"
          \/ (last'.op \in {"get_session", "__aenter__"}
                /\ last'.err # NoError))
         => HolderState' = HolderState /\ _session' = _session
    /\ _session # None => _session' # None

\* C9: state machine conformance.  The holder starts Unallocated and is
\* always Unallocated, Active or Closed; a get_session that returns and a
\* close take exactly the listed transitions (an external closure is the
\* only other change, Active to Closed); Unallocated is never re-entered;
\* and no state is terminal: get_session leads to Active and close to
\* Closed from every state, while the model may still allocate.
C9_StateMachine ==
    []C9_States /\ [][C9_Steps]_vars

\* The holder has gone Active, Closed, Active, Closed.
C9_Witness ==
    /\ HolderState = "Closed"
    /\ last.op = "close"
    /\ last.native = 1
    /\ _session = 2
    /\ objs[1].closeCalls = 1

\* C10: allocation failure on scope entry.  When the construction of the
\* session fails in __aenter__, the error reaches the caller as raised,
\* nothing was allocated, the scope is not entered and the holder's stored
\* session, its sessions and its kwargs are as before the call.
C10_AllocationFailure ==
    [][(last'.op = "__aenter__" /\ last'.err # NoError)
        => /\ last'.err = AllocationError
           /\ last'.alloc = 0
           /\ pc'[last'.task] = "out"
           /\ UNCHANGED <<_session, _session_kwargs, objs, pc, yielded>>]_vars

\* A scope entry failed on a Closed holder, which is still Closed.
C10_Witness ==
    /\ last.op = "__aenter__"
    /\ last.err = AllocationError
    /\ pc[Owner] = "out"
    /\ HolderState = "Closed"

\* C11: response fidelity.  parse_response returns a Response whose
\* status_code, body, headers and content_type are the raw response's
\* status, whole payload, headers and content type, and it reads the body
\* of the raw response exactly once.
C11_ResponseFidelity ==
    last.op = "parse_response"
        => /\ Len(parsed) = 1
           /\ parsed[1].response.status_code = parsed[1].raw.status
           /\ parsed[1].response.body = parsed[1].raw.payload
           /\ parsed[1].response.headers = parsed[1].raw.headers
           /\ parsed[1].response.content_type = parsed[1].raw.content_type
           /\ parsed[1].reads = 1

\* The response of the example was parsed: 200, b"ok" arriving in two
\* chunks, X-Test: 1, text/plain.
C11_Witness ==
    /\ last.op = "parse_response"
    /\ Len(parsed) = 1
    /\ parsed[1].raw.chunk < Len(parsed[1].raw.payload)
    /\ parsed[1].response =
         Response(200, <<111, 107>>, TestHeaders, "text/plain")

\* The sessions that report open.
OpenSessions ==
    {i \in DOMAIN objs : objs[i].closed = FALSE}

C13_CloseRace ==
    [][\A t \in Tasks :
          (frame[t].at = "closing" /\ frame'[t].at = "idle"
             /\ last'.err # CancelledError)
            => /\ objs'[frame[t].seen].closed
               /\ \A u \in Tasks \ {t} :
                     /\ pc'[u] = pc[u]
                     /\ yielded'[u] = yielded[u]]_vars

\* Task t2 is inside its scope with no call of its own in progress, the
\* session it was yielded is closed, and the step that got here is the
\* return of a close or scope exit of t1 that ran the native close.
C13_Witness ==
    /\ pc["t2"] = "body"
    /\ frame["t2"] = IdleFrame
    /\ yielded["t2"] # None
    /\ objs[yielded["t2"]].closed
    /\ yielded["t2"] = _session
    /\ last.task = "t1"
    /\ last.op \in {"close", "__aexit__"}
    /\ last.native = 1

\* C14: cancellation recovery.  Once a get_session, a scope entry, a close
\* or a scope exit has been cancelled at its await, in whatever state that
\* left the holder: a later get_session or scope entry that returns a
\* session returns one that is open and stored, allocating exactly when
\* the stored session was not in working order; a later close or scope
\* exit that returns raises nothing of its own and leaves no stored session
\* open; and both calls can always be started.
C14_CancellationRecovery ==
    [][(cancelled.n > 0 /\ frame'[Owner].at = "idle")
         => /\ Acquired(last')
                => /\ last'.ret = _session'
                   /\ objs'[last'.ret].closed = FALSE
                   /\ (last'.alloc = 1) = ~_session_in_working_order
            /\ (last'.op \in {"close", "__aexit__"}
                  /\ last'.err # CancelledError)
                => /\ last'.err = last'.raised
                   /\ HolderState' # "Active"
            /\ frame[Owner].at = "idle"
                => /\ ENABLED close_begin(Owner)
                   /\ (Len(objs) < MaxSharedSessions
                         => ENABLED get_session_begin(Owner))]_vars

\* A close was cancelled in the middle of the native close and left the
\* stored session open; the get_session after it returned that session.
C14_Witness ==
    /\ cancelled.n > 0
    /\ cancelled.op = "close"
    /\ last.op = "get_session"
    /\ Acquired(last)
    /\ last.alloc = 0
    /\ objs[last.ret].closeCalls = 1
    /\ objs[last.ret].closed = FALSE

\* C15: config merge.  The stored config is the shallow union of the
\* constructor's kwargs and the overrides in call order: a key holds the
\* value written to it last, a key no override named holds its initial
\* value, a key never written is absent.  An update changes the named keys
\* and no others, and every allocation, the first included, builds its
\* session from exactly the stored config.
C15_ConfigMerge ==
    /\ \A k \in Keys :
          IF written[k] = {}
          THEN k \notin DOMAIN _session_kwargs
          ELSE k \in DOMAIN _session_kwargs
                 /\ written[k] = {_session_kwargs[k]}
    /\ (Acquired(last) /\ last.alloc = 1)
          => objs[last.ret].kwargs = _session_kwargs

\* The initial timeout was overridden, proxy was added, and the first
\* session of the holder was then built from the merged config.
C15_Witness ==
    /\ init_kwargs = [k \in {"timeout"} |-> 1]
    /\ _session_kwargs = [k \in Keys |-> IF k = "timeout" THEN 2 ELSE 1]
    /\ Acquired(last)
    /\ last.alloc = 1
    /\ Len(objs) = 1
    /\ objs[1].kwargs = _session_kwargs

\* C16: no leaked open session.  Under single-task use at most one of the
\* sessions the holder ever allocated is open, and an open one is the
\* stored session: the holder never replaces a stored session that is
\* still open.
C16_NoLeakedOpenSession ==
    /\ Cardinality(OpenSessions) <= 1
    /\ \A i \in OpenSessions : i = _session

\* The holder is on its third session, which is open; the two before it
\* were closed, one by close and one by its borrower.
C16_Witness ==
    /\ Len(objs) = 3
    /\ OpenSessions = {3}
    /\ _session = 3
    /\ objs[1].closeCalls + objs[2].closeCalls = 1

\* C17: frame of parse_response and update_session_kwargs.  In every holder
\* state, Unallocated included, neither call allocates, replaces or closes
\* a session: the stored reference, the sessions and their open/closed
\* status are as before; parse_response leaves the stored config as it
\* was too.
C17_NonLifecycleFrame ==
    [][last'.op \in {"parse_response", "update_session_kwargs"}
         => /\ _session' = _session
            /\ Len(objs') = Len(objs)
            /\ \A i \in DOMAIN objs :
                  /\ objs'[i].closed = objs[i].closed
                  /\ objs'[i].closeCalls = objs[i].closeCalls
            /\ HolderState' = HolderState
            /\ last'.op = "parse_response"
                  => _session_kwargs' = _session_kwargs]_vars

\* A response was parsed on a holder that has never allocated a session,
\* after its config had been updated.
C17_Witness ==
    /\ last.op = "parse_response"
    /\ Len(parsed) = 1
    /\ HolderState = "Unallocated"
    /\ objs = << >>
    /\ _session_kwargs # init_kwargs
====
